---- MODULE Spec2Model ----
(***************************************************************************)
(* A model of the request handling of the four FastAPI applications of     *)
(* test_app: the core service (api.py), the dependency module              *)
(* (dependencies.py), the user module (users.py) and the composed          *)
(* application (api_main.py), with the route-template registry             *)
(* (routers.py).                                                           *)
(*                                                                         *)
(* A request is received and routed, its dependencies are solved in        *)
(* declaration order, its own parameters are validated, the handler body   *)
(* runs, generator dependencies are exited, and the return value or the    *)
(* exception is rendered into a response.                                  *)
(*                                                                         *)
(* Strings the code inspects (prefix, length, pattern, concatenation) are  *)
(* sequences of one-character strings; strings that are only compared or   *)
(* copied are TLA+ strings.  A path is the sequence of its segments: the   *)
(* path "/items/" is <<"items", "">>.                                      *)
(*                                                                         *)
(* Three specifications share the steps.  In Spec one request is in flight *)
(* at a time and, when several declarations of one application match it,   *)
(* any of them may serve it: what holds of Spec holds of each declaration, *)
(* whichever is dispatched to.  In SpecRouted the first declaration that   *)
(* matches serves, as the route list of the application is searched in     *)
(* order.  In SpecStores a second request is in flight (parked) and the    *)
(* event loop goes from one to the other between any two steps; stores     *)
(* holds the module-level fixtures.                                        *)
(***************************************************************************)
EXTENDS Integers, Sequences, FiniteSets, TLC

VARIABLES pc, req, depIdx, errors, exc, result, response, log,
          stores, parked

vars == <<pc, req, depIdx, errors, exc, result, response, log,
          stores, parked>>

(***************************************************************************)
(* Bounds of the model.                                                    *)
(***************************************************************************)
\* skip and limit of GET /items/ range over -1..MaxIndex
MaxIndex == 4

(***************************************************************************)
(* Optional values: Python's None and a present value.                     *)
(***************************************************************************)
None == [some |-> FALSE]

Some(v) == [some |-> TRUE, val |-> v]

\* Python truthiness of an optional string: None and "" are falsy
Truthy(o) == o.some /\ o.val # <<>>

\* str.startswith(prefix)
StartsWith(s, prefix) ==
    /\ Len(s) >= Len(prefix)
    /\ SubSeq(s, 1, Len(prefix)) = prefix

\* str.startswith(tuple of prefixes)
StartsWithAny(s, prefixes) == \E p \in prefixes : StartsWith(s, p)

\* a dict restricted to the keys in ks that it has
Restrict(d, ks) == [k \in (DOMAIN d) \cap ks |-> d[k]]

\* dict.update
Update(d, e) == [k \in (DOMAIN d) \cup (DOMAIN e) |->
                    IF k \in DOMAIN e THEN e[k] ELSE d[k]]

(***************************************************************************)
(* String literals of the source, as character sequences.                  *)
(***************************************************************************)
isbn_prefix == <<"i","s","b","n","-">>

imdb_prefix == <<"i","m","d","b","-">>

isbn_9781529046137 ==
    <<"i","s","b","n","-","9","7","8","1","5","2","9","0","4","6","1","3","7">>

imdb_tt0371724 == <<"i","m","d","b","-","t","t","0","3","7","1","7","2","4">>

isbn_9781439512982 ==
    <<"i","s","b","n","-","9","7","8","1","4","3","9","5","1","2","9","8","2">>

fixedquery == <<"f","i","x","e","d","q","u","e","r","y">>

supersecret == <<"s","u","p","e","r","s","e","c","r","e","t">>

(***************************************************************************)
(* Routing: path templates and their matching.                             *)
(***************************************************************************)
Lit(s) == [kind |-> "lit", name |-> s]

Param(s) == [kind |-> "param", name |-> s]

\* a "{name:path}" parameter, which matches the rest of the path
PathParam(s) == [kind |-> "path", name |-> s]

\* routers.py: the route templates, each the segments of its string
route_object ==
    [users    |-> <<Lit("users"), Param("user_id")>>,
     item_id  |-> <<Lit("items13"), Param("item_id")>>,
     models   |-> <<Lit("models"), Param("model_id")>>,
     files    |-> <<Lit("files"), Param("file_path")>>,
     projects |-> <<Lit("projects"), Param("project_id")>>]

\* DotNotation(route): attribute-style lookup of the mapping's keys
routers == route_object


\* the template string f"{b}"
ConcatTemplate_second_only(a, b) == b

\* the template string f"{a}{b}": both start with "/", so the segments of the
\* concatenation are the segments of a followed by those of b
ConcatTemplate(a, b) == a \o b

\* does the path match the template: a literal segment matches itself, a
\* parameter one non-empty segment, a path parameter a non-empty rest
RECURSIVE Matches(_, _)
Matches(template, path) ==
    IF template = <<>> THEN path = <<>>
    ELSE IF path = <<>> THEN FALSE
    ELSE LET t == Head(template) IN
         CASE t.kind = "lit" ->
                  Head(path) = t.name /\ Matches(Tail(template), Tail(path))
           [] t.kind = "param" ->
                  Head(path) # "" /\ Matches(Tail(template), Tail(path))
           [] t.kind = "path" -> Tail(template) = <<>> /\ path # <<"">>

\* the value a matching path gives the parameter of that name
RECURSIVE PathValue(_, _, _)
PathValue(template, path, name) ==
    IF template = <<>> \/ path = <<>> THEN ""
    ELSE IF Head(template).kind = "param" /\ Head(template).name = name
         THEN Head(path)
    ELSE PathValue(Tail(template), Tail(path), name)

(***************************************************************************)
(* Exceptions, handler outcomes and responses.                             *)
(***************************************************************************)
NoHeaders == [h \in {} |-> ""]

\* fastapi.HTTPException(status_code, detail, headers); detail is the
\* sequence of the pieces of its text
HTTPException(status_code, detail, headers) ==
    [type |-> "HTTPException", status_code |-> status_code,
     detail |-> detail, headers |-> headers, arg |-> ""]

\* fastapi.exceptions.RequestValidationError
RequestValidationError ==
    [type |-> "RequestValidationError", status_code |-> 0,
     detail |-> <<"validation error">>, headers |-> NoHeaders, arg |-> ""]

\* an exception of an application-defined or builtin type with one argument
AppException(type, arg) ==
    [type |-> type, status_code |-> 0, detail |-> <<>>,
     headers |-> NoHeaders, arg |-> arg]

NoExc == [type |-> "none", status_code |-> 0, detail |-> <<>>,
          headers |-> NoHeaders, arg |-> ""]

Return(v) == [kind |-> "return", value |-> v]

Raise(e) == [kind |-> "raise", exc |-> e]

\* the handler returns a Response object, which is sent as it is
ReturnResponse(r) == [kind |-> "return", value |-> r, response |-> TRUE]

NoResult == [kind |-> "none"]

NoResponse == [status_code |-> 0, media_type |-> "none", body |-> <<>>,
               headers |-> NoHeaders]

Min(a, b) == IF a < b THEN a ELSE b

Max(a, b) == IF a > b THEN a ELSE b

\* a Python slice bound, clamped into 0..n: a negative bound counts from the end
SliceBound(i, n) == IF i < 0 THEN Max(i + n, 0) ELSE Min(i, n)

\* the Python slice s[lo:hi] of a list
Slice(s, lo, hi) ==
    LET a == SliceBound(lo, Len(s))
        b == SliceBound(hi, Len(s))
    IN  IF a < b THEN SubSeq(s, a + 1, b) ELSE <<>>

(***************************************************************************)
(* The core service (api.py).                                              *)
(***************************************************************************)
core_fake_items_db ==
    <<[item_name |-> "Foo"], [item_name |-> "Bar"], [item_name |-> "Baz"]>>

\* the catalog: identifier -> title
core_data ==
    [k \in {isbn_9781529046137, imdb_tt0371724, isbn_9781439512982} |->
        IF k = isbn_9781439512982
        THEN "Isaac Asimov: The Complete Stories, Vol. 2"
        ELSE "The Hitchhiker's Guide to the Galaxy"]

\* the priced items: item_id -> the fields it has; a number is its text
core_items ==
    [k \in {"foo", "bar", "baz"} |->
        CASE k = "foo" -> [name |-> "Foo", price |-> "50.2"]
          [] k = "bar" -> [name |-> "Bar", description |-> "The Bar fighters",
                           price |-> "62", tax |-> "20.2"]
          [] k = "baz" -> [name |-> "Baz",
                           description |-> "There goes my baz",
                           price |-> "50.2", tax |-> "10.5"]]

\* dict.get(key): None when the key is absent
DictGet(d, k) == IF k \in DOMAIN d THEN Some(d[k]) ELSE None


\* check_valid_id(ids) that knows the prefix "isbn-" only
check_valid_id_isbn_only(ids) == ~ StartsWith(ids, isbn_prefix)

\* does check_valid_id(ids) raise ValueError
check_valid_id_raises(ids) == ~ StartsWithAny(ids, {isbn_prefix, imdb_prefix})


\* read_items(skip, limit) with limit as a count: fake_items_db[skip: skip + limit]
core_read_items_count(skip, limit) ==
    Return(Slice(core_fake_items_db, skip, skip + limit))

\* read_items(skip, limit)
core_read_items(skip, limit) == Return(Slice(core_fake_items_db, skip, limit))

\* read_item13(item_id)
read_item13(item_id) == Return([item_id |-> item_id])


\* Query(min_length=3, max_length=50) on a supplied q, without the pattern
read_items2_q_no_pattern(q) == Len(q) < 3 \/ Len(q) > 50

\* Query(min_length=3, max_length=50, pattern="^fixedquery$") on a supplied q
read_items2_q_invalid(q) ==
    \/ Len(q) < 3
    \/ Len(q) > 50
    \/ q # fixedquery

\* read_items2(q)
read_items2(q) ==
    LET results == [items |-> <<[item_id |-> "Foo"], [item_id |-> "Bar"]>>]
    IN  Return(IF Truthy(q) THEN Update(results, [q |-> q.val]) ELSE results)

\* read_items8(ids); choice is the entry random.choice picks
read_items8(ids, choice) ==
    IF Truthy(ids)
    THEN Return([id |-> ids.val, name |-> DictGet(core_data, ids.val)])
    ELSE Return([id |-> choice, name |-> Some(core_data[choice])])

UserInFields == {"username", "password", "email", "full_name"}

\* str.lower of one character
Lower(c) == IF c = "B" THEN "b" ELSE c

\* EmailStr: the validated address, its domain in lower case
EmailStr(email) ==
    LET at == CHOOSE i \in DOMAIN email : email[i] = "@"
    IN  [i \in DOMAIN email |-> IF i > at THEN Lower(email[i]) ELSE email[i]]

\* UserIn: the validated request body
UserIn(body) == [body EXCEPT !["email"] = EmailStr(@)]

UserOutFields == {"username", "email", "full_name"}

UserInDBFields == {"username", "hashed_password", "email", "full_name"}

\* fake_password_hasher(raw_password)
fake_password_hasher(raw_password) == supersecret \o raw_password

\* fake_save_user(user_in): UserInDB takes its own fields of the dump and of
\* the keyword argument, and ignores the others
fake_save_user(user_in) ==
    LET hashed_password == fake_password_hasher(user_in.password)
    IN  Restrict(Update(user_in, [hashed_password |-> hashed_password]),
                 UserInDBFields)

\* create_user(user), the first declaration of POST /user/
create_user_1(user) == Return(user)

\* create_user(user_in), the second declaration of POST /user/
create_user_2(user_in) == Return(fake_save_user(user_in))


\* POST /user/ without a response model
response_model_absent(value) == value

\* response_model=UserOut: the response carries the fields of UserOut
response_model_UserOut(value) == Restrict(value, UserOutFields)

(***************************************************************************)
(* The dependency module (dependencies.py).                                *)
(***************************************************************************)
\* verify_token(x_token)
verify_token(x_token) ==
    IF x_token # "fake-super-secret-token"
    THEN Raise(HTTPException(400, <<"X-Token header invalid">>, NoHeaders))
    ELSE Return(None)


\* verify_key(x_key) without its comparison
verify_key_accepting(x_key) == Return(Some(x_key))

\* verify_key(x_key)
verify_key(x_key) ==
    IF x_key # "fake-super-secret-key"
    THEN Raise(HTTPException(400, <<"X-Key header invalid">>, NoHeaders))
    ELSE Return(Some(x_key))

\* read_items(), the declaration with the two header dependencies
deps_read_items == Return(<<[item |-> "Foo"], [item |-> "Bar"]>>)

\* the ownership fixture
deps_data ==
    [k \in {"plumbus", "portal-gun"} |->
        IF k = "plumbus"
        THEN [description |-> "Freshly pickled plumbus", owner |-> "Morty"]
        ELSE [description |-> "Gun to create portals", owner |-> "Rick"]]

\* get_username() up to its yield: the value it yields
get_username_yield == "Rick"


\* get_username() without its except clause
get_username_exit_untranslated(e) == e

\* get_username() after its yield, with the exception e thrown into it (NoExc
\* when the request raised nothing): the exception that leaves the generator
get_username_exit(e) ==
    IF e.type = "OwnerError"
    THEN HTTPException(400, <<"Owner error: ", e.arg>>, NoHeaders)
    ELSE e

\* get_item(item_id, username)
get_item(item_id, username) ==
    IF item_id \notin DOMAIN deps_data
    THEN Raise(HTTPException(404, <<"Item not found">>, NoHeaders))
    ELSE LET item == deps_data[item_id]
         IN  IF item.owner # username
             THEN Raise(AppException("OwnerError", username))
             ELSE Return(item)

(***************************************************************************)
(* The user module (users.py).                                             *)
(***************************************************************************)
\* the car/plane fixture
users_items ==
    [k \in {"item1", "item2"} |->
        IF k = "item1"
        THEN [description |-> "All my friends drive a low rider",
              type |-> "car"]
        ELSE [description |-> "Music is my aeroplane, it's my aeroplane",
              type |-> "plane", size |-> 5]]

users_items2 == [k \in {"foo"} |-> "The Foo Wrestlers"]

\* users.fake_save_user(user_in)
users_fake_save_user(user_in) ==
    LET hashed_password == fake_password_hasher(user_in.password)
    IN  Restrict(Update(user_in, [hashed_password |-> hashed_password]),
                 UserInDBFields)

\* users.create_user(user_in)
users_create_user(user_in) == Return(users_fake_save_user(user_in))

\* read_item(item_id: str), the first declaration of GET /items/{item_id}
users_read_item_1(item_id) ==
    IF item_id \notin DOMAIN users_items2
    THEN Raise(HTTPException(404, <<"Item not found">>, NoHeaders))
    ELSE Return([item |-> users_items2[item_id]])

\* read_item(item_id: str), the second declaration: items[item_id]
users_read_item_2(item_id) ==
    IF item_id \notin DOMAIN users_items
    THEN Raise(AppException("KeyError", item_id))
    ELSE Return(users_items[item_id])

\* read_item(item_id: int), the last declaration
users_read_item_3(item_id) ==
    IF item_id = 3
    THEN Raise(HTTPException(418, <<"Nope! I don't like 3.">>, NoHeaders))
    ELSE Return([item_id |-> item_id])

\* read_item_header(item_id)
read_item_header(item_id) ==
    IF item_id \notin DOMAIN users_items
    THEN Raise(HTTPException(404, <<"Item not found">>,
                             [h \in {"X-Error"} |-> "There goes my error"]))
    ELSE Return([item |-> users_items[item_id]])

\* read_unicorn(name)
read_unicorn(name) ==
    IF name = "yolo"
    THEN Raise(AppException("UnicornException", name))
    ELSE Return([unicorn_name |-> name])

\* JSONResponse(status_code, content)
JSONResponse(status_code, content, headers) ==
    [status_code |-> status_code, media_type |-> "application/json",
     body |-> content, headers |-> headers]

\* PlainTextResponse(content, status_code)
PlainTextResponse(content, status_code) ==
    [status_code |-> status_code, media_type |-> "text/plain",
     body |-> content, headers |-> NoHeaders]

\* unicorn_exception_handler(request, exc)
unicorn_exception_handler(e) ==
    JSONResponse(418,
        [message |-> <<"Oops! ", e.arg,
                       " did something. There goes a rainbow...">>],
        NoHeaders)


\* users.http_exception_handler(request, exc) with a fixed status
http_exception_handler_status_400(e) == PlainTextResponse(e.detail, 400)

\* users.http_exception_handler(request, exc)
http_exception_handler(e) == PlainTextResponse(e.detail, e.status_code)

\* users.validation_exception_handler(request, exc)
validation_exception_handler(e) == PlainTextResponse(e.detail, 400)

(***************************************************************************)
(* The handlers an application has when it installs none of its own.       *)
(***************************************************************************)
\* an HTTPException becomes {"detail": detail} with its status and headers
default_http_exception_handler(e) ==
    JSONResponse(e.status_code, [detail |-> e.detail], e.headers)

\* a RequestValidationError becomes status 422
default_validation_exception_handler(e) ==
    JSONResponse(422, [detail |-> e.detail], NoHeaders)

\* an exception no handler takes becomes status 500
server_error_response(e) ==
    PlainTextResponse(<<"Internal Server Error">>, 500)

\* RedirectResponse(url)
RedirectResponse(url) ==
    [status_code |-> 307, media_type |-> "none", body |-> <<>>,
     headers |-> [h \in {"location"} |-> url]]

\* a query parameter with a default
OrDefault(o, default) == IF o.some THEN o.val ELSE default

\* read_item_name(item_id): items[item_id]
read_item_name(item_id) ==
    IF item_id \notin DOMAIN core_items
    THEN Raise(AppException("KeyError", item_id))
    ELSE Return(core_items[item_id])

\* read_item_public_data(item_id): items[item_id]
read_item_public_data(item_id) ==
    IF item_id \notin DOMAIN core_items
    THEN Raise(AppException("KeyError", item_id))
    ELSE Return(core_items[item_id])

\* get_portal(teleport), the first declaration of GET /portal
get_portal_1(teleport) ==
    IF teleport
    THEN ReturnResponse(
             RedirectResponse("https://www.youtube.com/watch?v=dQw4w9WgXcQ"))
    ELSE ReturnResponse(
             JSONResponse(200,
                 [message |-> "Here's your interdimensional portal."],
                 NoHeaders))

\* get_portal(teleport), the second declaration of GET /portal
get_portal_2(teleport) ==
    IF teleport
    THEN ReturnResponse(
             RedirectResponse("https://www.youtube.com/watch?v=dQw4w9WgXcQ"))
    ELSE Return([message |-> "Here's your interdimensional portal."])

\* dependencies.fake_items_db
deps_fake_items_db ==
    <<[item_name |-> "Foo"], [item_name |-> "Bar"], [item_name |-> "Baz"]>>

\* CommonQueryParams(q, skip, limit)
CommonQueryParams(q, skip, limit) == [q |-> q, skip |-> skip, limit |-> limit]

\* read_items(commons), the first declaration of GET /items/ of
\* dependencies.py
deps_read_items_class(commons) ==
    LET response0 == [k \in {} |-> <<>>]
        response1 == IF Truthy(commons.q)
                     THEN Update(response0, [q |-> commons.q.val])
                     ELSE response0
        items == Slice(deps_fake_items_db, commons.skip,
                       commons.skip + commons.limit)
    IN  Return(Update(response1, [items |-> items]))

(***************************************************************************)
(* The routing tables: the route declarations of each application in the   *)
(* order of the source.                                                    *)
(***************************************************************************)
Route(method, template, handler, dependencies) ==
    [method |-> method, template |-> template, handler |-> handler,
     dependencies |-> dependencies]

\* the routes of api.py
core_routes ==
    << Route("GET", <<Lit("")>>, "root", <<>>),
       Route("GET", <<Lit("hello")>>, "hello", <<>>),
       Route("GET", <<Lit("hello"), Param("name")>>, "hello_name", <<>>),
       Route("GET", <<Lit("users"), Param("user_id"), Lit("items"),
                      Param("item_id")>>, "read_user_item", <<>>),
       Route("GET", <<Lit("items"), Lit("")>>, "read_items", <<>>),
       Route("GET", ConcatTemplate(routers.users, routers.item_id),
             "read_item13", <<>>),
       Route("GET", <<Lit("items2"), Lit("")>>, "read_items2", <<>>),
       Route("GET", <<Lit("items3"), Lit("")>>, "read_items3", <<>>),
       Route("GET", <<Lit("items4"), Lit("")>>, "read_items4", <<>>),
       Route("GET", <<Lit("items5"), Lit("")>>, "read_items5", <<>>),
       Route("GET", <<Lit("models"), Param("model_name")>>, "get_model", <<>>),
       Route("GET", <<Lit("files"), PathParam("file_path")>>, "read_file",
             <<>>),
       Route("POST", <<Lit("items"), Lit("")>>, "create_item", <<>>),
       Route("GET", <<Lit("items6"), Lit("")>>, "read_items6", <<>>),
       Route("GET", <<Lit("items7"), Lit("")>>, "read_items7", <<>>),
       Route("GET", <<Lit("items8"), Lit("")>>, "read_items8", <<>>),
       Route("GET", <<Lit("items9"), Param("item_id")>>, "read_items9", <<>>),
       Route("GET", <<Lit("items10"), Param("item_id")>>, "read_items10",
             <<>>),
       Route("GET", <<Lit("items11"), Param("item_id")>>, "read_items11",
             <<>>),
       Route("GET", <<Lit("items12"), Lit("")>>, "read_items12", <<>>),
       Route("PUT", <<Lit("items1"), Param("item_id")>>, "update_item1", <<>>),
       Route("PUT", <<Lit("items"), Param("item_id")>>, "update_item", <<>>),
       Route("PUT", <<Lit("items3"), Param("item_id")>>, "update_item3", <<>>),
       Route("PUT", <<Lit("items4"), Param("item_id")>>, "update_item4", <<>>),
       Route("PUT", <<Lit("items5"), Param("item_id")>>, "update_item5", <<>>),
       Route("PUT", <<Lit("items6"), Param("item_id")>>, "update_item6", <<>>),
       Route("PUT", <<Lit("items7"), Param("item_id")>>, "update_item7", <<>>),
       Route("PUT", <<Lit("items8"), Param("item_id")>>, "update_item8", <<>>),
       Route("PUT", <<Lit("items9"), Param("item_id")>>, "update_items9",
             <<>>),
       Route("GET", <<Lit("items"), Lit("")>>, "cookie_items", <<>>),
       Route("GET", <<Lit("items"), Lit("")>>, "header_items", <<>>),
       Route("GET", <<Lit("items2"), Lit("")>>, "cookie_items2", <<>>),
       Route("GET", <<Lit("items2"), Lit("")>>, "headers_items", <<>>),
       Route("GET", <<Lit("items15"), Lit("")>>, "fine_items_15", <<>>),
       Route("GET", <<Lit("items16"), Lit("")>>, "fine_items_16", <<>>),
       Route("POST", <<Lit("user"), Lit("")>>, "create_user_1", <<>>),
       Route("GET", <<Lit("portal")>>, "get_portal_1", <<>>),
       Route("GET", <<Lit("portal")>>, "get_portal_2", <<>>),
       Route("GET", <<Lit("items"), Param("item_id"), Lit("name")>>,
             "read_item_name", <<>>),
       Route("GET", <<Lit("items"), Param("item_id"), Lit("public")>>,
             "read_item_public_data", <<>>),
       Route("POST", <<Lit("user"), Lit("")>>, "create_user_2", <<>>) >>

\* the routes of dependencies.py
deps_routes ==
    << Route("GET", <<Lit("items"), Lit("")>>, "deps_read_items_class",
             <<"CommonQueryParams">>),
       Route("GET", <<Lit("items"), Lit("")>>, "read_items_commons", <<>>),
       Route("GET", <<Lit("users"), Lit("")>>, "read_users", <<>>),
       Route("GET", <<Lit("items"), Lit("")>>, "read_query", <<>>),
       Route("GET", <<Lit("items"), Lit("")>>, "deps_read_items",
             <<"verify_token", "verify_key">>),
       Route("GET", <<Lit("items"), Param("item_id")>>, "get_item",
             <<"get_username">>) >>

\* the routes of users.py
users_routes ==
    << Route("GET", <<Lit("items"), Param("item_id")>>, "users_read_item_1",
             <<>>),
       Route("GET", <<Lit("items"), Param("item_id")>>, "users_read_item_2",
             <<>>),
       Route("POST", <<Lit("user"), Lit("")>>, "users_create_user", <<>>),
       Route("GET", <<Lit("keyword-weights"), Lit("")>>,
             "read_keyword_weights", <<>>),
       Route("POST", <<Lit("login"), Lit("")>>, "login", <<>>),
       Route("POST", <<Lit("login2"), Lit("")>>, "login2", <<>>),
       Route("POST", <<Lit("files"), Lit("")>>, "create_files", <<>>),
       Route("POST", <<Lit("uploadfiles"), Lit("")>>, "create_upload_files",
             <<>>),
       Route("GET", <<Lit("")>>, "main", <<>>),
       Route("GET", <<Lit("items-header"), Param("item_id")>>,
             "read_item_header", <<>>),
       Route("GET", <<Lit("unicorns"), Param("name")>>, "read_unicorn", <<>>),
       Route("GET", <<Lit("items"), Param("item_id")>>, "users_read_item_3",
             <<>>) >>

(***************************************************************************)
(* The composed application (api_main.py).  The three routers and the two  *)
(* gates are not part of the source: each router stands here with one      *)
(* route, and a gate raises a client error when its token is not the       *)
(* expected one.                                                           *)
(***************************************************************************)
api_users_router == << Route("GET", <<Lit("users"), Lit("")>>,
                             "api_users_route", <<>>) >>

api_items_router == << Route("GET", <<Lit("items"), Lit("")>>,
                             "api_items_route", <<>>) >>

internal_admin_router == << Route("POST", <<Lit("")>>,
                                  "internal_admin_route", <<>>) >>

\* get_query_token: the gate on the query token
get_query_token(ok) ==
    IF ~ ok
    THEN Raise(HTTPException(400, <<"query token invalid">>, NoHeaders))
    ELSE Return(None)

\* get_token_header: the gate on the header token
get_token_header(ok) ==
    IF ~ ok
    THEN Raise(HTTPException(400, <<"header token invalid">>, NoHeaders))
    ELSE Return(None)

\* FastAPI(dependencies=[Depends(get_query_token)])
main_dependencies == <<"get_query_token">>

\* the dependencies of include_router(internal_admin.router, ...)
admin_dependencies == <<"get_token_header">>

\* the prefix of include_router(internal_admin.router, ...)
admin_prefix == <<Lit("admin")>>


\* include_router(router, prefix, dependencies) that drops the dependencies
include_router_ungated(router, prefix, dependencies) ==
    [i \in DOMAIN router |->
        Route(router[i].method, prefix \o router[i].template,
              router[i].handler, router[i].dependencies)]

\* include_router(router, prefix, dependencies): each route of the router
\* under the prefix, the dependencies of the inclusion before its own
include_router(router, prefix, dependencies) ==
    [i \in DOMAIN router |->
        Route(router[i].method, prefix \o router[i].template,
              router[i].handler, dependencies \o router[i].dependencies)]

\* a route of the application: the application's dependencies come first
add_api_route(route) ==
    Route(route.method, route.template, route.handler,
          main_dependencies \o route.dependencies)

\* the routes of api_main.py
main_routes ==
    LET included ==
            include_router(api_users_router, <<>>, <<>>)
         \o include_router(api_items_router, <<>>, <<>>)
         \o include_router(internal_admin_router, admin_prefix,
                           admin_dependencies)
         \o << Route("GET", <<Lit("")>>, "main_root", <<>>) >>
    IN  [i \in DOMAIN included |-> add_api_route(included[i])]

\* root() of api_main.py
main_root == Return([message |-> "Hello Bigger Applications!"])

\* a route of one of the included routers
router_route(handler) == Return([handled_by |-> handler])

Services == {"core", "deps", "users", "main"}

Routes(svc) ==
    CASE svc = "core"  -> core_routes
      [] svc = "deps"  -> deps_routes
      [] svc = "users" -> users_routes
      [] svc = "main"  -> main_routes

(***************************************************************************)
(* The requests of the model.                                              *)
(***************************************************************************)
\* the handlers whose bodies the model runs
Modelled ==
    {"read_items", "read_item13", "read_items2", "read_items8",
     "create_user_1", "create_user_2", "get_portal_1", "get_portal_2",
     "read_item_name", "read_item_public_data",
     "deps_read_items_class", "deps_read_items", "get_item",
     "users_read_item_1", "users_read_item_2", "users_read_item_3",
     "users_create_user", "read_item_header", "read_unicorn",
     "api_users_route", "api_items_route", "internal_admin_route",
     "main_root"}

\* the paths requested of each application
SamplePaths(svc) ==
    CASE svc = "core" ->
           { <<"items", "">>, <<"items13", "X">>,
             <<"users", "U", "items13", "X">>, <<"items2", "">>,
             <<"items8", "">>, <<"user", "">>, <<"portal">>,
             <<"items", "bar", "name">>, <<"items", "zap", "name">>,
             <<"items", "foo", "public">> }
      [] svc = "deps" ->
           { <<"items", "">>, <<"items", "plumbus">>,
             <<"items", "portal-gun">>, <<"items", "squanchy">> }
      [] svc = "users" ->
           { <<"items", "foo">>, <<"items", "item1">>, <<"items", "3">>,
             <<"items", "5">>, <<"items-header", "item2">>,
             <<"items-header", "item9">>, <<"unicorns", "yolo">>,
             <<"unicorns", "rainbow">>, <<"user", "">> }
      [] svc = "main" ->
           { <<"">>, <<"users", "">>, <<"items", "">>, <<"admin", "">> }

Methods == {"GET", "POST"}

\* a string of n characters
Chars(n) == [i \in 1..n |-> "a"]

OptInts == {None} \cup {Some(i) : i \in -1..MaxIndex}

QValues ==
    {None, Some(<<>>), Some(<<"a","b">>), Some(<<"a","b","c">>),
     Some(fixedquery), Some(fixedquery \o <<"2">>), Some(Chars(51))}

IdsValues ==
    {None, Some(<<>>), Some(<<"f","o","o","-","1">>), Some(isbn_prefix),
     Some(isbn_9781529046137), Some(imdb_tt0371724),
     Some(isbn_9781439512982), Some(imdb_prefix \o <<"0">>)}

HeaderValues ==
    {None, Some(""), Some("fake-super-secret-token"),
     Some("fake-super-secret-key")}

Names == {<<"a">>, <<"r","i","c","k">>}

Passwords == {<<"a">>, <<"p","w">>}

Emails == {<<"a","@","b",".","c">>, <<"a","@","B",".","c">>}

FullNames == {None, Some(<<"a">>), Some(supersecret \o <<"a">>)}

\* the request bodies of POST /user/: the objects with the fields of UserIn,
\* and one without a password
UserBodies ==
    { [k \in UserInFields |->
          CASE k = "username" -> u [] k = "password" -> p
            [] k = "email" -> e [] k = "full_name" -> f]
      : u \in Names, p \in Passwords, e \in Emails, f \in FullNames }
    \cup
    { [k \in UserInFields \ {"password"} |->
          CASE k = "username" -> u [] k = "email" -> e
            [] k = "full_name" -> None]
      : u \in Names, e \in Emails }

NoBody == [k \in {} |-> <<>>]

DefaultInputs ==
    [q |-> None, ids |-> None, skip |-> None, limit |-> None,
     x_token |-> None, x_key |-> None, body |-> NoBody, teleport |-> None,
     query_token_ok |-> FALSE, header_token_ok |-> FALSE]

\* the inputs a request gives the handler that serves it
Inputs(handler) ==
    CASE handler = "read_items" ->
           {[DefaultInputs EXCEPT !.skip = s, !.limit = l] :
               s \in OptInts, l \in OptInts}
      [] handler = "read_items2" ->
           {[DefaultInputs EXCEPT !.q = q] : q \in QValues}
      [] handler = "read_items8" ->
           {[DefaultInputs EXCEPT !.ids = i] : i \in IdsValues}
      [] handler \in {"create_user_1", "create_user_2", "users_create_user"} ->
           {[DefaultInputs EXCEPT !.body = b] : b \in UserBodies}
      [] handler \in {"get_portal_1", "get_portal_2"} ->
           {[DefaultInputs EXCEPT !.teleport = t] :
               t \in {None, Some(FALSE), Some(TRUE)}}
      [] handler = "deps_read_items_class" ->
           {[DefaultInputs EXCEPT !.q = q, !.skip = s, !.limit = l] :
               q \in {None, Some(<<>>), Some(<<"a","b">>)},
               s \in {None, Some(1)}, l \in {None, Some(1)}}
      [] handler = "deps_read_items" ->
           {[DefaultInputs EXCEPT !.x_token = t, !.x_key = k] :
               t \in HeaderValues, k \in HeaderValues}
      [] handler \in {"api_users_route", "api_items_route",
                      "internal_admin_route", "main_root"} ->
           {[DefaultInputs EXCEPT !.query_token_ok = a,
                                  !.header_token_ok = b] :
               a \in BOOLEAN, b \in BOOLEAN}
      [] OTHER -> {DefaultInputs}

NoReq ==
    [svc |-> "none", method |-> "none", path |-> <<>>, handler |-> "none",
     template |-> <<>>, dependencies |-> <<>>, in |-> DefaultInputs]

\* the text of a path segment that is a decimal integer, and its value
IntText == [t \in {"3", "5"} |-> IF t = "3" THEN 3 ELSE 5]

Range(f) == {f[i] : i \in DOMAIN f}

TypeOK ==
    /\ pc \in {"idle", "deps", "body", "exit", "render", "done"}
    /\ depIdx \in 1..3
    /\ errors \in BOOLEAN
    /\ req.svc \in Services \cup {"none"}

\* the module-level fixture stores as they are when the process starts
InitialStores ==
    [core_fake_items_db |-> core_fake_items_db,
     core_data |-> core_data,
     core_items |-> core_items,
     deps_fake_items_db |-> deps_fake_items_db,
     deps_data |-> deps_data,
     users_items |-> users_items,
     users_items2 |-> users_items2]

Init ==
    /\ pc = "idle"
    /\ req = NoReq
    /\ depIdx = 1
    /\ errors = FALSE
    /\ exc = NoExc
    /\ result = NoResult
    /\ response = NoResponse
    /\ log = <<>>
    /\ stores = InitialStores
    /\ parked = [pc |-> "idle", req |-> NoReq, depIdx |-> 1,
                 errors |-> FALSE, exc |-> NoExc, result |-> NoResult,
                 response |-> NoResponse, log |-> <<>>]

\* a store with one of its entries removed
Read_pop(store) ==
    [k \in DOMAIN store \ {CHOOSE k \in DOMAIN store : TRUE} |-> store[k]]

\* a store after it was read: store[key], store.get(key), key in store,
\* store[i: j] and list(store.items()) leave it as it is
Read(store) == store

\* the stores after this function ran: the stores it names, read
Touched(name) ==
    CASE name = "read_items" ->
           [stores EXCEPT !.core_fake_items_db = Read(@)]
      [] name = "read_items8" ->
           [stores EXCEPT !.core_data = Read(@)]
      [] name \in {"read_item_name", "read_item_public_data"} ->
           [stores EXCEPT !.core_items = Read(@)]
      [] name = "deps_read_items_class" ->
           [stores EXCEPT !.deps_fake_items_db = Read(@)]
      [] name = "get_item" ->
           [stores EXCEPT !.deps_data = Read(@)]
      [] name = "users_read_item_1" ->
           [stores EXCEPT !.users_items2 = Read(@)]
      [] name \in {"users_read_item_2", "read_item_header"} ->
           [stores EXCEPT !.users_items = Read(@)]
      [] OTHER -> stores

(***************************************************************************)
(* Receiving and routing a request.                                        *)
(***************************************************************************)
\* the declarations of the table that match the method and the path
Matching(table, method, path) ==
    {i \in DOMAIN table :
        table[i].method = method /\ Matches(table[i].template, path)}

\* the declarations of the table that match the path, whatever the method
MatchingPath(table, path) ==
    {i \in DOMAIN table : Matches(table[i].template, path)}

\* the last of the declarations that match
Dispatch_last(table, method, path) ==
    CHOOSE i \in Matching(table, method, path) :
        \A j \in Matching(table, method, path) : j <= i

\* the declaration that serves a request some declaration matches: the
\* routes are tried in the order of their declaration and the first that
\* matches serves
Dispatch(table, method, path) ==
    CHOOSE i \in Matching(table, method, path) :
        \A j \in Matching(table, method, path) : i <= j

\* the declaration i of the application is to serve the request, with one
\* of the inputs given for its handler
Serve(svc, method, path, i, inputs) ==
    LET route == Routes(svc)[i] IN
    /\ route.handler \in Modelled
    /\ \E in \in inputs[route.handler] :
         req' = [svc |-> svc, method |-> method, path |-> path,
                 handler |-> route.handler,
                 template |-> route.template,
                 dependencies |-> route.dependencies, in |-> in]
    /\ pc' = "deps"
    /\ depIdx' = 1
    /\ errors' = FALSE
    /\ exc' = NoExc
    /\ result' = NoResult
    /\ response' = NoResponse
    /\ log' = <<>>
    /\ UNCHANGED <<stores, parked>>

\* a request arrives and the first declaration that matches it is to serve
\* it
ReceiveRouted ==
    /\ pc = "idle"
    /\ \E svc \in Services, method \in Methods :
         \E path \in SamplePaths(svc) :
           /\ Matching(Routes(svc), method, path) # {}
           /\ Serve(svc, method, path,
                    Dispatch(Routes(svc), method, path),
                    [handler \in Modelled |-> Inputs(handler)])

\* a request arrives and a declaration that matches it is to serve it
Receive ==
    /\ pc = "idle"
    /\ \E svc \in Services, method \in Methods :
         \E path \in SamplePaths(svc) :
           \E i \in Matching(Routes(svc), method, path) :
             Serve(svc, method, path, i,
                   [handler \in Modelled |-> Inputs(handler)])

\* a request arrives that no declaration matches: 404, or 405 when the path
\* alone matches one
NoMatch ==
    /\ pc = "idle"
    /\ \E svc \in Services, method \in Methods :
         \E path \in SamplePaths(svc) :
           /\ Matching(Routes(svc), method, path) = {}
           /\ req' = [NoReq EXCEPT !.svc = svc, !.method = method,
                                   !.path = path]
           /\ exc' = IF MatchingPath(Routes(svc), path) = {}
                     THEN HTTPException(404, <<"Not Found">>, NoHeaders)
                     ELSE HTTPException(405, <<"Method Not Allowed">>,
                                        NoHeaders)
    /\ pc' = "render"
    /\ depIdx' = 1
    /\ errors' = FALSE
    /\ result' = NoResult
    /\ response' = NoResponse
    /\ log' = <<>>
    /\ UNCHANGED <<stores, parked>>

(***************************************************************************)
(* Solving the dependencies of the route, in their order.  A dependency    *)
(* whose own parameter is missing is not called and the request goes on    *)
(* with a validation error recorded; a dependency that raises ends the     *)
(* solving.                                                                *)
(***************************************************************************)
\* get_username as a function that returns "Rick": nothing waits at a yield
GeneratorOpen_never == FALSE

\* is a generator dependency of the request waiting at its yield
GeneratorOpen == \E i \in DOMAIN log : log[i] = "get_username"

Solving(name) ==
    /\ pc = "deps"
    /\ depIdx <= Len(req.dependencies)
    /\ req.dependencies[depIdx] = name

\* the dependency was called with this outcome
Called(name, outcome) ==
    /\ log' = Append(log, name)
    /\ IF outcome.kind = "raise"
       THEN /\ exc' = outcome.exc
            /\ pc' = IF GeneratorOpen THEN "exit" ELSE "render"
            /\ depIdx' = depIdx
       ELSE /\ exc' = exc
            /\ pc' = pc
            /\ depIdx' = depIdx + 1
    /\ stores' = Touched(name)
    /\ UNCHANGED <<req, errors, result, response, parked>>

\* the dependency's parameter is missing
Missing ==
    /\ errors' = TRUE
    /\ depIdx' = depIdx + 1
    /\ UNCHANGED <<pc, req, exc, result, response, log, stores, parked>>

Solve_verify_token ==
    /\ Solving("verify_token")
    /\ IF req.in.x_token.some
       THEN Called("verify_token", verify_token(req.in.x_token.val))
       ELSE Missing

Solve_verify_key ==
    /\ Solving("verify_key")
    /\ IF req.in.x_key.some
       THEN Called("verify_key", verify_key(req.in.x_key.val))
       ELSE Missing

Solve_get_username ==
    /\ Solving("get_username")
    /\ Called("get_username", Return(get_username_yield))

Solve_CommonQueryParams ==
    /\ Solving("CommonQueryParams")
    /\ Called("CommonQueryParams",
              Return(CommonQueryParams(req.in.q, OrDefault(req.in.skip, 0),
                                       OrDefault(req.in.limit, 100))))

Solve_get_query_token ==
    /\ Solving("get_query_token")
    /\ Called("get_query_token", get_query_token(req.in.query_token_ok))

Solve_get_token_header ==
    /\ Solving("get_token_header")
    /\ Called("get_token_header", get_token_header(req.in.header_token_ok))

(***************************************************************************)
(* The parameters of the handler itself.                                   *)
(***************************************************************************)
\* the body of POST /user/ is no UserIn
UserIn_invalid(body) == ~ ({"username", "password", "email"} \subseteq DOMAIN body)

\* does the request fail the validation of the handler's own parameters
ParamErrors(r) ==
    CASE r.handler = "read_items2" ->
           r.in.q.some /\ read_items2_q_invalid(r.in.q.val)
      [] r.handler = "read_items8" ->
           r.in.ids.some /\ check_valid_id_raises(r.in.ids.val)
      [] r.handler \in {"create_user_1", "create_user_2",
                        "users_create_user"} ->
           UserIn_invalid(r.in.body)
      [] r.handler = "users_read_item_3" ->
           PathValue(r.template, r.path, "item_id") \notin DOMAIN IntText
      [] OTHER -> FALSE

\* the dependencies are solved: with a validation error the request raises
\* RequestValidationError, without one the handler is called
Validate ==
    /\ pc = "deps"
    /\ depIdx > Len(req.dependencies)
    /\ errors' = (errors \/ ParamErrors(req))
    /\ IF errors'
       THEN /\ exc' = RequestValidationError
            /\ pc' = IF GeneratorOpen THEN "exit" ELSE "render"
       ELSE /\ exc' = exc
            /\ pc' = "body"
    /\ UNCHANGED <<req, depIdx, result, response, log, stores, parked>>

(***************************************************************************)
(* The handler bodies.                                                     *)
(***************************************************************************)
Running(handler) ==
    /\ pc = "body"
    /\ req.handler = handler

\* the handler ran with this outcome
Ran(handler, outcome) ==
    /\ log' = Append(log, handler)
    /\ IF outcome.kind = "raise"
       THEN exc' = outcome.exc /\ result' = result
       ELSE exc' = exc /\ result' = outcome
    /\ pc' = IF GeneratorOpen THEN "exit" ELSE "render"
    /\ stores' = Touched(handler)
    /\ UNCHANGED <<req, depIdx, errors, response, parked>>

Run_read_items ==
    /\ Running("read_items")
    /\ Ran("read_items", core_read_items(OrDefault(req.in.skip, 0),
                                         OrDefault(req.in.limit, 10)))

Run_read_item13 ==
    /\ Running("read_item13")
    /\ Ran("read_item13",
           read_item13(PathValue(req.template, req.path, "item_id")))

Run_read_items2 ==
    /\ Running("read_items2")
    /\ Ran("read_items2", read_items2(req.in.q))

Run_read_items8 ==
    /\ Running("read_items8")
    /\ \E choice \in DOMAIN core_data :
          Ran("read_items8", read_items8(req.in.ids, choice))

Run_create_user_1 ==
    /\ Running("create_user_1")
    /\ Ran("create_user_1", create_user_1(UserIn(req.in.body)))

Run_create_user_2 ==
    /\ Running("create_user_2")
    /\ Ran("create_user_2", create_user_2(UserIn(req.in.body)))

Run_read_item_name ==
    /\ Running("read_item_name")
    /\ Ran("read_item_name", read_item_name(PathValue(req.template, req.path, "item_id")))

Run_read_item_public_data ==
    /\ Running("read_item_public_data")
    /\ Ran("read_item_public_data",
           read_item_public_data(
               PathValue(req.template, req.path, "item_id")))

Run_get_portal_1 ==
    /\ Running("get_portal_1")
    /\ Ran("get_portal_1", get_portal_1(OrDefault(req.in.teleport, FALSE)))

Run_get_portal_2 ==
    /\ Running("get_portal_2")
    /\ Ran("get_portal_2", get_portal_2(OrDefault(req.in.teleport, FALSE)))

Run_deps_read_items_class ==
    /\ Running("deps_read_items_class")
    /\ Ran("deps_read_items_class",
           deps_read_items_class(
               CommonQueryParams(req.in.q, OrDefault(req.in.skip, 0),
                                 OrDefault(req.in.limit, 100))))

Run_deps_read_items ==
    /\ Running("deps_read_items")
    /\ Ran("deps_read_items", deps_read_items)

Run_get_item ==
    /\ Running("get_item")
    /\ Ran("get_item", get_item(PathValue(req.template, req.path, "item_id"),
                                get_username_yield))

Run_users_read_item_1 ==
    /\ Running("users_read_item_1")
    /\ Ran("users_read_item_1",
           users_read_item_1(PathValue(req.template, req.path, "item_id")))

Run_users_read_item_2 ==
    /\ Running("users_read_item_2")
    /\ Ran("users_read_item_2",
           users_read_item_2(PathValue(req.template, req.path, "item_id")))

Run_users_read_item_3 ==
    /\ Running("users_read_item_3")
    /\ Ran("users_read_item_3",
           users_read_item_3(
               IntText[PathValue(req.template, req.path, "item_id")]))

Run_users_create_user ==
    /\ Running("users_create_user")
    /\ Ran("users_create_user", users_create_user(UserIn(req.in.body)))

Run_read_item_header ==
    /\ Running("read_item_header")
    /\ Ran("read_item_header",
           read_item_header(PathValue(req.template, req.path, "item_id")))

Run_read_unicorn ==
    /\ Running("read_unicorn")
    /\ Ran("read_unicorn",
           read_unicorn(PathValue(req.template, req.path, "name")))

Run_main_root ==
    /\ Running("main_root")
    /\ Ran("main_root", main_root)

Run_router_route ==
    /\ pc = "body"
    /\ req.handler \in {"api_users_route", "api_items_route",
                        "internal_admin_route"}
    /\ Ran(req.handler, router_route(req.handler))

(***************************************************************************)
(* Leaving the generator dependency: the exception of the request, if any, *)
(* is thrown into get_username at its yield.                               *)
(***************************************************************************)
Exit_get_username ==
    /\ pc = "exit"
    /\ exc' = get_username_exit(exc)
    /\ log' = Append(log, "get_username:exit")
    /\ pc' = "render"
    /\ stores' = Touched("get_username")
    /\ UNCHANGED <<req, depIdx, errors, result, response, parked>>

(***************************************************************************)
(* Rendering the response.                                                 *)
(***************************************************************************)
\* the response model of the route applied to the value the handler returned
ResponseModel(handler, value) ==
    LET \* Item: the fields the value lacks take their defaults, the price
        \* is a float
        item == [name |-> value.name,
                 description |-> IF "description" \in DOMAIN value
                                 THEN Some(value.description) ELSE None,
                 price |-> IF value.price = "62" THEN "62.0"
                           ELSE value.price,
                 tax |-> IF "tax" \in DOMAIN value
                         THEN Some(value.tax) ELSE None,
                 tags |-> <<>>,
                 image |-> None]
    IN  CASE handler \in {"create_user_1", "create_user_2",
                          "users_create_user"} ->
               response_model_UserOut(value)
          [] handler = "read_item_name" ->
               Restrict(item, {"name", "description"})
          [] handler = "read_item_public_data" ->
               Restrict(item, DOMAIN item \ {"tax"})
          [] OTHER -> value

\* the exception handlers the application installs: exception type -> handler
exception_handlers(svc) ==
    IF svc = "users"
    THEN [t \in {"UnicornException", "HTTPException",
                 "RequestValidationError"} |->
            CASE t = "UnicornException" -> "unicorn_exception_handler"
              [] t = "HTTPException" -> "http_exception_handler"
              [] t = "RequestValidationError" ->
                     "validation_exception_handler"]
    ELSE [t \in {"HTTPException", "RequestValidationError"} |->
            CASE t = "HTTPException" -> "default_http_exception_handler"
              [] t = "RequestValidationError" ->
                     "default_validation_exception_handler"]

\* the handler that takes the exception in flight, "none" if there is none
HandlerOf(svc, e) ==
    IF e.type \in DOMAIN exception_handlers(svc)
    THEN exception_handlers(svc)[e.type]
    ELSE "none"

Respond(r) ==
    /\ response' = r
    /\ pc' = "done"
    /\ UNCHANGED <<req, depIdx, errors, exc, result, log, stores, parked>>

Serialize ==
    /\ pc = "render"
    /\ exc = NoExc
    /\ result.kind = "return"
    /\ Respond(IF "response" \in DOMAIN result
               THEN result.value
               ELSE JSONResponse(200,
                        ResponseModel(req.handler, result.value), NoHeaders))

Handling(name) ==
    /\ pc = "render"
    /\ exc # NoExc
    /\ HandlerOf(req.svc, exc) = name

Handle_unicorn ==
    /\ Handling("unicorn_exception_handler")
    /\ Respond(unicorn_exception_handler(exc))

Handle_http ==
    /\ Handling("http_exception_handler")
    /\ Respond(http_exception_handler(exc))

Handle_validation ==
    /\ Handling("validation_exception_handler")
    /\ Respond(validation_exception_handler(exc))

Handle_default_http ==
    /\ Handling("default_http_exception_handler")
    /\ Respond(default_http_exception_handler(exc))

Handle_default_validation ==
    /\ Handling("default_validation_exception_handler")
    /\ Respond(default_validation_exception_handler(exc))

Handle_unhandled ==
    /\ Handling("none")
    /\ Respond(server_error_response(exc))

\* the response is sent and the request is over; the application waits for
\* the next request
Finish ==
    /\ pc = "done"
    /\ pc' = "idle"
    /\ req' = NoReq
    /\ depIdx' = 1
    /\ errors' = FALSE
    /\ exc' = NoExc
    /\ result' = NoResult
    /\ response' = NoResponse
    /\ log' = <<>>
    /\ UNCHANGED <<stores, parked>>

Next ==
    \/ Receive
    \/ NoMatch
    \/ Solve_verify_token
    \/ Solve_verify_key
    \/ Solve_get_username
    \/ Solve_CommonQueryParams
    \/ Solve_get_query_token
    \/ Solve_get_token_header
    \/ Validate
    \/ Run_read_items
    \/ Run_read_item13
    \/ Run_read_items2
    \/ Run_read_items8
    \/ Run_create_user_1
    \/ Run_create_user_2
    \/ Run_read_item_name
    \/ Run_read_item_public_data
    \/ Run_get_portal_1
    \/ Run_get_portal_2
    \/ Run_deps_read_items_class
    \/ Run_deps_read_items
    \/ Run_get_item
    \/ Run_users_read_item_1
    \/ Run_users_read_item_2
    \/ Run_users_read_item_3
    \/ Run_users_create_user
    \/ Run_read_item_header
    \/ Run_read_unicorn
    \/ Run_main_root
    \/ Run_router_route
    \/ Exit_get_username
    \/ Serialize
    \/ Handle_unicorn
    \/ Handle_http
    \/ Handle_validation
    \/ Handle_default_http
    \/ Handle_default_validation
    \/ Handle_unhandled
    \/ Finish

Spec == Init /\ [][Next]_vars

\* the steps of the applications when the first declaration that matches
\* serves each request: the declarations it shadows never run
NextRouted ==
    \/ ReceiveRouted
    \/ NoMatch
    \/ Solve_get_username
    \/ Solve_CommonQueryParams
    \/ Solve_get_query_token
    \/ Solve_get_token_header
    \/ Validate
    \/ Run_read_items
    \/ Run_read_item13
    \/ Run_read_items2
    \/ Run_read_items8
    \/ Run_create_user_1
    \/ Run_read_item_name
    \/ Run_read_item_public_data
    \/ Run_get_portal_1
    \/ Run_deps_read_items_class
    \/ Run_get_item
    \/ Run_users_read_item_1
    \/ Run_users_create_user
    \/ Run_read_item_header
    \/ Run_read_unicorn
    \/ Run_main_root
    \/ Run_router_route
    \/ Exit_get_username
    \/ Serialize
    \/ Handle_unicorn
    \/ Handle_http
    \/ Handle_validation
    \/ Handle_default_http
    \/ Handle_default_validation
    \/ Handle_unhandled
    \/ Finish

SpecRouted == Init /\ [][NextRouted]_vars

\* the inputs of the requests that are interleaved
StoreInputs(handler) ==
    CASE handler = "read_items8" ->
           {[DefaultInputs EXCEPT !.ids = i] :
               i \in {None, Some(<<"f","o","o","-","1">>),
                      Some(isbn_9781529046137)}}
      [] handler = "deps_read_items" ->
           {[DefaultInputs EXCEPT !.x_token = t, !.x_key = k] :
               t \in {None, Some("fake-super-secret-token")},
               k \in {None, Some("fake-super-secret-key")}}
      [] handler \in {"api_users_route", "api_items_route",
                      "internal_admin_route", "main_root"} ->
           {[DefaultInputs EXCEPT !.query_token_ok = a,
                                  !.header_token_ok = a] : a \in BOOLEAN}
      [] handler \in {"create_user_1", "create_user_2",
                      "users_create_user"} ->
           {CHOOSE in \in Inputs(handler) : ~UserIn_invalid(in.body)}
      [] OTHER -> {DefaultInputs}

\* a request arrives while another may be in flight
ReceiveStores ==
    /\ pc = "idle"
    /\ \E svc \in Services, method \in Methods :
         \E path \in SamplePaths(svc) :
           \E i \in Matching(Routes(svc), method, path) :
             Serve(svc, method, path, i,
                   [handler \in Modelled |-> StoreInputs(handler)])

\* the event loop leaves the request in flight where it is and goes on with
\* the other one
Switch ==
    /\ parked' = [pc |-> pc, req |-> req, depIdx |-> depIdx,
                  errors |-> errors, exc |-> exc, result |-> result,
                  response |-> response, log |-> log]
    /\ pc' = parked.pc
    /\ req' = parked.req
    /\ depIdx' = parked.depIdx
    /\ errors' = parked.errors
    /\ exc' = parked.exc
    /\ result' = parked.result
    /\ response' = parked.response
    /\ log' = parked.log
    /\ UNCHANGED stores

\* the steps of the applications when two requests are in flight and the
\* event loop goes from one to the other between any two steps
NextStores ==
    \/ ReceiveStores
    \/ Switch
    \/ NoMatch
    \/ Solve_verify_token
    \/ Solve_verify_key
    \/ Solve_get_username
    \/ Solve_CommonQueryParams
    \/ Solve_get_query_token
    \/ Solve_get_token_header
    \/ Validate
    \/ Run_read_items
    \/ Run_read_item13
    \/ Run_read_items2
    \/ Run_read_items8
    \/ Run_create_user_1
    \/ Run_create_user_2
    \/ Run_read_item_name
    \/ Run_read_item_public_data
    \/ Run_get_portal_1
    \/ Run_get_portal_2
    \/ Run_deps_read_items_class
    \/ Run_deps_read_items
    \/ Run_get_item
    \/ Run_users_read_item_1
    \/ Run_users_read_item_2
    \/ Run_users_read_item_3
    \/ Run_users_create_user
    \/ Run_read_item_header
    \/ Run_read_unicorn
    \/ Run_main_root
    \/ Run_router_route
    \/ Exit_get_username
    \/ Serialize
    \/ Handle_unicorn
    \/ Handle_http
    \/ Handle_validation
    \/ Handle_default_http
    \/ Handle_default_validation
    \/ Handle_unhandled
    \/ Finish

SpecStores == Init /\ [][NextStores]_vars

(***************************************************************************)
(* Properties.                                                             *)
(***************************************************************************)
\* the request in flight is answered, and this handler was to serve it
Answered(handler) == pc = "done" /\ req.handler = handler

\* the body of this function ran for the request in flight
BodyRan(name) == name \in Range(log)

\* the path parameter of the request in flight
PathArg(name) == PathValue(req.template, req.path, name)

\* C1: GET /items/{item_id} of the dependency module ends in exactly one of:
\* 404 "Item not found" for an item_id that is no key of the fixture; 400 for
\* plumbus, whose owner is not "Rick", the OwnerError reaching the caller
\* only as that client error; the full record for portal-gun.
C1_GetItemOutcomes ==
    Answered("get_item") =>
        LET item_id == PathArg("item_id") IN
        /\ item_id \notin {"plumbus", "portal-gun"} =>
             /\ response.status_code = 404
             /\ response.body = [detail |-> <<"Item not found">>]
        /\ item_id = "plumbus" =>
             /\ response.status_code = 400
             /\ exc.type = "HTTPException"
             /\ response.body = [detail |-> <<"Owner error: ", "Rick">>]
        /\ item_id = "portal-gun" =>
             /\ response.status_code = 200
             /\ exc = NoExc
             /\ response.body = [description |-> "Gun to create portals",
                                 owner |-> "Rick"]

\* C1 witness: plumbus was requested and answered with status 400
C1_Witness ==
    /\ Answered("get_item")
    /\ PathArg("item_id") = "plumbus"
    /\ BodyRan("get_item")
    /\ response.status_code = 400

TokenMatches == req.in.x_token = Some("fake-super-secret-token")

KeyMatches == req.in.x_key = Some("fake-super-secret-key")

\* a header that was supplied differs from its secret
SuppliedHeaderDiffers ==
    \/ req.in.x_token.some /\ ~ TokenMatches
    \/ req.in.x_key.some /\ ~ KeyMatches

CreateUserHandlers == {"create_user_1", "create_user_2", "users_create_user"}

\* POST /user/ was answered with a user
UserCreated ==
    /\ pc = "done"
    /\ req.handler \in CreateUserHandlers
    /\ response.status_code = 200

\* C3 as claimed: the response of POST /user/ has only the fields of UserOut,
\* no key password or hashed_password, and no field whose value is the raw
\* password or "supersecret" + password.
C3_Original ==
    UserCreated =>
        LET password == req.in.body.password
            hashed == supersecret \o password
            body == response.body
        IN  /\ DOMAIN body \subseteq UserOutFields
            /\ body.username \notin {password, hashed}
            /\ body.email \notin {password, hashed}
            /\ body.full_name \notin {Some(password), Some(hashed)}

\* C3 amended: the response of POST /user/ has exactly the fields of UserOut,
\* each with the value of that field of the validated input (username and
\* full_name as submitted, email as the validation normalises it), and no
\* key password or hashed_password; so the raw password or "supersecret" +
\* password is a field value only where the validated username, email or
\* full_name has that value, and requests that differ only in password get
\* the same response.
C3_UserOutOnly ==
    UserCreated =>
        LET body == response.body IN
        /\ DOMAIN body = UserOutFields
        /\ "password" \notin DOMAIN body
        /\ "hashed_password" \notin DOMAIN body
        /\ body.username = req.in.body.username
        /\ body.email = EmailStr(req.in.body.email)
        /\ req.in.body.email = <<"a","@","B",".","c">> =>
              body.email = <<"a","@","b",".","c">>
        /\ body.full_name = req.in.body.full_name

\* C3 witness: the user module saved a user and answered
C3_Witness ==
    /\ UserCreated
    /\ req.handler = "users_create_user"
    /\ BodyRan("users_create_user")
    /\ req.in.body.password = <<"p","w">>
    /\ result.value.hashed_password = supersecret \o <<"p","w">>

\* C4: in the user module GET /items-header/{item_id} answers an item_id that
\* is no key of the car/plane fixture with status 404 and the response header
\* X-Error: There goes my error, and a key with {"item": record}.
C4_HeaderOnNotFound ==
    Answered("read_item_header") =>
        IF PathArg("item_id") \notin {"item1", "item2"}
        THEN /\ response.status_code = 404
             /\ "X-Error" \in DOMAIN response.headers
             /\ response.headers["X-Error"] = "There goes my error"
        ELSE /\ response.status_code = 200
             /\ response.body = [item |-> users_items[PathArg("item_id")]]

\* the titles of the catalog
CatalogTitles ==
    {"The Hitchhiker's Guide to the Galaxy",
     "Isaac Asimov: The Complete Stories, Vol. 2"}

CatalogIds == {isbn_9781529046137, imdb_tt0371724, isbn_9781439512982}

\* ids was supplied and starts with "isbn-" or "imdb-"
IdsHasPrefix ==
    /\ req.in.ids.some
    /\ \/ StartsWith(req.in.ids.val, <<"i","s","b","n","-">>)
       \/ StartsWith(req.in.ids.val, <<"i","m","d","b","-">>)

\* C5 as claimed: GET /items8/ fails with status 400 and without a lookup for
\* a supplied ids without a valid prefix, returns the catalog title stored
\* under a supplied ids with a valid prefix, returns an entry of the catalog
\* when ids is omitted, and every name it returns is a title of the catalog.
C5_Original ==
    Answered("read_items8") =>
        /\ (req.in.ids.some /\ ~ IdsHasPrefix) =>
              /\ response.status_code = 400
              /\ ~ BodyRan("read_items8")
        /\ IdsHasPrefix =>
              /\ response.status_code = 200
              /\ response.body.id = req.in.ids.val
        /\ response.status_code = 200 =>
              /\ response.body.name.some
              /\ response.body.name.val \in CatalogTitles

\* C5 amended: GET /items8/ fails the request validation (status 422) and
\* without a lookup for a supplied ids without a valid prefix; for a supplied
\* ids with a valid prefix it returns {"id": ids, "name": the catalog title
\* stored under ids, or null when ids is no key of the catalog}; when ids is
\* omitted the returned (id, name) is an entry of the catalog.  The name of a
\* successful response is a title of the catalog or, only for a supplied ids
\* that is no key of the catalog, null.
C5_Items8 ==
    Answered("read_items8") =>
        /\ (req.in.ids.some /\ ~ IdsHasPrefix) =>
              /\ response.status_code = 422
              /\ ~ BodyRan("read_items8")
        /\ IdsHasPrefix =>
              /\ response.status_code = 200
              /\ response.body.id = req.in.ids.val
              /\ IF req.in.ids.val \in CatalogIds
                 THEN response.body.name = Some(core_data[req.in.ids.val])
                 ELSE response.body.name = None
        /\ ~ req.in.ids.some =>
              /\ response.status_code = 200
              /\ response.body.id \in CatalogIds
              /\ response.body.name = Some(core_data[response.body.id])
        /\ (response.status_code = 200 /\ response.body.name.some) =>
              response.body.name.val \in CatalogTitles

\* C5 witness: ids=foo-1 was refused
C5_Witness ==
    /\ Answered("read_items8")
    /\ req.in.ids = Some(<<"f","o","o","-","1">>)
    /\ response.status_code = 422
    /\ exc.type = "RequestValidationError"

\* the result of GET /items2/ without q
Items2Result == [items |-> <<[item_id |-> "Foo"], [item_id |-> "Bar"]>>]

\* C6 as claimed: GET /items2/ returns the items without a key q when no q is
\* given, the items and q for every q of length >= 3, and fails validation
\* without running the handler for every q of length < 3.
C6_Original ==
    Answered("read_items2") =>
        /\ ~ req.in.q.some =>
              response.status_code = 200 /\ response.body = Items2Result
        /\ (req.in.q.some /\ Len(req.in.q.val) >= 3) =>
              /\ response.status_code = 200
              /\ response.body = Update(Items2Result, [q |-> req.in.q.val])
        /\ (req.in.q.some /\ Len(req.in.q.val) < 3) =>
              /\ exc.type = "RequestValidationError"
              /\ ~ BodyRan("read_items2")

\* C6 amended: GET /items2/ returns the items without a key q when no q is
\* given, and the items and q for q = "fixedquery", the one value of length
\* 3 to 50 that matches the pattern ^fixedquery$; for every other q that is
\* supplied (q=abc and q=ab among them) the request fails validation and the
\* handler does not run.
C6_Items2 ==
    Answered("read_items2") =>
        /\ ~ req.in.q.some =>
              /\ response.status_code = 200
              /\ response.body = Items2Result
              /\ "q" \notin DOMAIN response.body
        /\ (req.in.q.some /\ req.in.q.val = fixedquery) =>
              /\ response.status_code = 200
              /\ response.body = Update(Items2Result, [q |-> fixedquery])
        /\ (req.in.q.some /\ req.in.q.val # fixedquery) =>
              /\ exc.type = "RequestValidationError"
              /\ response.status_code = 422
              /\ ~ BodyRan("read_items2")

\* C6 witness: q=abc was refused
C6_Witness ==
    /\ Answered("read_items2")
    /\ req.in.q = Some(<<"a","b","c">>)
    /\ exc.type = "RequestValidationError"
    /\ ~ BodyRan("read_items2")

\* the skip and the limit of the request in flight, with their defaults
SkipOf == IF req.in.skip.some THEN req.in.skip.val ELSE 0

LimitOf == IF req.in.limit.some THEN req.in.limit.val ELSE 10

\* C7: for non-negative skip and limit GET /items/ of the core service
\* returns exactly the elements of the fixture at the indices i with
\* skip <= i < limit, in the order of the fixture; skip defaults to 0 and
\* limit to 10.
C7_ReadItemsSlice ==
    (Answered("read_items") /\ SkipOf >= 0 /\ LimitOf >= 0) =>
        LET fixture == <<[item_name |-> "Foo"], [item_name |-> "Bar"],
                         [item_name |-> "Baz"]>>
            indices == {i \in 0..2 : SkipOf <= i /\ i < LimitOf}
            body == response.body
        IN  /\ response.status_code = 200
            /\ Len(body) = Cardinality(indices)
            /\ \A j \in 1..Len(body) : body[j] = fixture[SkipOf + j]
            /\ LimitOf <= SkipOf => body = <<>>

\* C7 witness: skip=1, limit=2 returned the one element fixture[1]
C7_Witness ==
    /\ Answered("read_items")
    /\ req.in.skip = Some(1)
    /\ req.in.limit = Some(2)
    /\ response.body = <<[item_name |-> "Bar"]>>

\* the position of a name in the log, 0 when it is not there
Position(name) ==
    IF BodyRan(name)
    THEN CHOOSE i \in DOMAIN log :
            log[i] = name /\ \A j \in DOMAIN log : log[j] = name => i <= j
    ELSE 0

AdminHandlers == {"internal_admin_route"}

\* C8: in the composed application the query-token gate is the first code
\* that runs for a request, and nothing else runs when it fails; under
\* /admin the header-token gate runs after it and before the route body,
\* which does not run when the header-token gate fails; the header-token
\* gate never runs for a route of the users router, of the items router or
\* for GET /.
C8_GateOrder ==
    req.svc = "main" =>
        /\ log # <<>> => log[1] = "get_query_token"
        /\ ~ req.in.query_token_ok => Len(log) <= 1
        /\ BodyRan("get_token_header") =>
              /\ req.handler \in AdminHandlers
              /\ Position("get_token_header") = 2
        /\ BodyRan(req.handler) =>
              /\ req.in.query_token_ok
              /\ Position(req.handler) = Len(log)
              /\ req.handler \in AdminHandlers =>
                    /\ req.in.header_token_ok
                    /\ Position("get_token_header") = 2
                    /\ Position(req.handler) = 3
        /\ pc = "done" /\ req.handler # "none" =>
              /\ BodyRan("get_query_token")
              /\ (req.handler \in AdminHandlers /\ req.in.query_token_ok)
                    => BodyRan("get_token_header")
              /\ ~ req.in.query_token_ok => response.status_code = 400
              /\ (req.handler \in AdminHandlers /\ ~ req.in.header_token_ok)
                    => response.status_code = 400

\* C8 witness: a request under /admin passed both gates and its route ran
C8_Witness ==
    /\ Answered("internal_admin_route")
    /\ log = <<"get_query_token", "get_token_header", "internal_admin_route">>

\* C9: in the user module an HTTP error raised during a request (404 "Item
\* not found", 418 "Nope! I don't like 3.") is answered in plain text with
\* the detail of the error as body and the status of the error; a request
\* that fails validation is answered in plain text with status 400; a
\* UnicornException is answered by its own handler with status 418.
C9_UserModuleErrors ==
    (pc = "done" /\ req.svc = "users") =>
        /\ exc.type = "HTTPException" =>
              /\ response.media_type = "text/plain"
              /\ response.body = exc.detail
              /\ response.status_code = exc.status_code
        /\ (req.handler = "users_read_item_1" /\ PathArg("item_id") # "foo") =>
              /\ response.media_type = "text/plain"
              /\ response.body = <<"Item not found">>
              /\ response.status_code = 404
        /\ (req.handler = "users_read_item_3" /\ PathArg("item_id") = "3") =>
              /\ response.media_type = "text/plain"
              /\ response.body = <<"Nope! I don't like 3.">>
              /\ response.status_code = 418
        /\ exc.type = "RequestValidationError" =>
              /\ response.media_type = "text/plain"
              /\ response.status_code = 400
        /\ (req.handler = "users_read_item_3"
              /\ PathArg("item_id") \notin {"3", "5"}) =>
              /\ exc.type = "RequestValidationError"
              /\ response.status_code = 400
        /\ exc.type = "UnicornException" =>
              /\ response.media_type = "application/json"
              /\ response.status_code = 418
        /\ (req.handler = "read_unicorn" /\ PathArg("name") = "yolo") =>
              /\ response.status_code = 418
              /\ response.body =
                    [message |-> <<"Oops! ", "yolo",
                                   " did something. There goes a rainbow...">>]

\* C9 witness: GET /items/3 raised the 404 of the first declaration and was
\* answered in plain text
C9_Witness ==
    /\ Answered("users_read_item_1")
    /\ BodyRan("users_read_item_1")
    /\ PathArg("item_id") = "3"
    /\ exc.type = "HTTPException"
    /\ exc.status_code = 404
    /\ response.status_code = 404
    /\ response.media_type = "text/plain"

\* a GET request of the core service for this path was answered
CoreGet(path) ==
    /\ pc = "done"
    /\ req.svc = "core"
    /\ req.method = "GET"
    /\ req.path = path

\* C10 as claimed: read_item13 is registered at the item_id template of the
\* registry, "/items13/{item_id}": GET /items13/X is dispatched to it and
\* returns {"item_id": "X"}, and the registry's item_id is that template.
C10_Original ==
    /\ routers.item_id = <<Lit("items13"), Param("item_id")>>
    /\ req.handler = "read_item13" => req.template = routers.item_id
    /\ CoreGet(<<"items13", "X">>) =>
          /\ req.handler = "read_item13"
          /\ response.status_code = 200
          /\ response.body = [item_id |-> "X"]

\* C10 amended: read_item13 is registered at the users template of the
\* registry followed by its item_id template,
\* "/users/{user_id}/items13/{item_id}": GET /users/U/items13/X is dispatched
\* to it and returns {"item_id": "X"}, GET /items13/X matches no route and is
\* answered 404, and the registry's item_id is "/items13/{item_id}".
C10_ReadItem13Route ==
    /\ routers.item_id = <<Lit("items13"), Param("item_id")>>
    /\ req.handler = "read_item13" =>
          req.template = <<Lit("users"), Param("user_id"),
                           Lit("items13"), Param("item_id")>>
    /\ CoreGet(<<"users", "U", "items13", "X">>) =>
          /\ req.handler = "read_item13"
          /\ BodyRan("read_item13")
          /\ response.status_code = 200
          /\ response.body = [item_id |-> "X"]
    /\ CoreGet(<<"items13", "X">>) =>
          /\ req.handler = "none"
          /\ log = <<>>
          /\ response.status_code = 404

\* C10 witness: GET /users/U/items13/X was served by read_item13
C10_Witness ==
    /\ CoreGet(<<"users", "U", "items13", "X">>)
    /\ req.handler = "read_item13"
    /\ response.body = [item_id |-> "X"]

\* how many times the name is in the log
Count(name) == Cardinality({i \in DOMAIN log : log[i] = name})

\* C11: for a request served by get_item the code of get_username after its
\* yield runs exactly once on every exit path of the handler, after the
\* record is returned, after the 404 is raised and after OwnerError is
\* raised: never twice, and once by the time the response is rendered.
C11_TeardownOnce ==
    req.handler = "get_item" =>
        /\ Count("get_username") <= 1
        /\ Count("get_username:exit") <= 1
        /\ BodyRan("get_username:exit") =>
              /\ BodyRan("get_item")
              /\ Position("get_item") < Position("get_username:exit")
        /\ pc \in {"render", "done", "idle"} =>
              /\ Count("get_item") = 1
              /\ Count("get_username") = 1
              /\ Count("get_username:exit") = 1
        /\ pc = "done" =>
              LET item_id == PathArg("item_id") IN
              /\ item_id = "portal-gun" => response.status_code = 200
              /\ item_id = "plumbus" => response.status_code = 400
              /\ item_id = "squanchy" => response.status_code = 404

\* C11 witness: the handler raised its 404 and get_username was left once
C11_Witness ==
    /\ Answered("get_item")
    /\ PathArg("item_id") = "squanchy"
    /\ exc.status_code = 404
    /\ log = <<"get_username", "get_item", "get_username:exit">>

\* the declarations of the application that match the request
Declared == Matching(Routes(req.svc), req.method, req.path)

\* the place of the serving handler among the declarations
Serving == CHOOSE i \in DOMAIN Routes(req.svc) :
               Routes(req.svc)[i].handler = req.handler

\* the request is for this method and path of this application
RequestFor(svc, method, path) ==
    /\ req.svc = svc
    /\ req.method = method
    /\ req.path = path

\* C12 as stated: a request several declarations match is served by the last
\* of them and never by an earlier one; in the user module GET
\* /items/{item_id} is served by the integer-typed declaration (418 for 3,
\* {"item_id": n} for another integer), in the core service GET /portal and
\* POST /user/ are served by their second declarations.
C12_Original ==
    req.handler # "none" =>
        /\ \A j \in Declared : j <= Serving
        /\ (req.svc = "users" /\ req.method = "GET"
               /\ Len(req.path) = 2 /\ req.path[1] = "items") =>
              /\ req.handler = "users_read_item_3"
              /\ (pc = "done" /\ req.path[2] = "3") =>
                    response.status_code = 418
              /\ (pc = "done" /\ req.path[2] = "5") =>
                    response.body = [item_id |-> 5]
        /\ RequestFor("core", "GET", <<"portal">>) =>
              req.handler = "get_portal_2"
        /\ RequestFor("core", "POST", <<"user", "">>) =>
              req.handler = "create_user_2"

\* C12: a request several declarations match is served by the first of them
\* in the order of declaration and never by a later one: the body of a later
\* declaration never runs.  In the user module GET /items/{item_id} is served
\* by the first, string-typed declaration ("foo" is answered {"item": "The
\* Foo Wrestlers"}, every other item_id, 3 included, 404 "Item not found" in
\* plain text); in the core service GET /portal and POST /user/ are served by
\* their first declarations, and in the dependency module GET /items/ by the
\* declaration that takes CommonQueryParams.
C12_FirstDeclarationServes ==
    req.handler # "none" =>
        /\ \A j \in Declared : Serving <= j
        /\ \A i \in DOMAIN log :
              log[i] \in Modelled => log[i] = req.handler
        /\ (req.svc = "users" /\ req.method = "GET"
               /\ Len(req.path) = 2 /\ req.path[1] = "items") =>
              /\ req.handler = "users_read_item_1"
              /\ (pc = "done" /\ req.path[2] = "foo") =>
                    /\ response.status_code = 200
                    /\ response.body = [item |-> "The Foo Wrestlers"]
              /\ (pc = "done" /\ req.path[2] # "foo") =>
                    /\ response.status_code = 404
                    /\ response.media_type = "text/plain"
                    /\ response.body = <<"Item not found">>
        /\ RequestFor("core", "GET", <<"portal">>) =>
              req.handler = "get_portal_1"
        /\ RequestFor("core", "POST", <<"user", "">>) =>
              req.handler = "create_user_1"
        /\ RequestFor("deps", "GET", <<"items", "">>) =>
              req.handler = "deps_read_items_class"

\* C12 witness: GET /items/3 of the user module, which all three declarations
\* match, was answered by the first with its 404
C12_Witness ==
    /\ Answered("users_read_item_1")
    /\ RequestFor("users", "GET", <<"items", "3">>)
    /\ Cardinality(Declared) = 3
    /\ log = <<"users_read_item_1">>
    /\ response.status_code = 404

\* C13: after any sequence and any interleaving of requests every
\* module-level fixture store (fake_items_db, data and items of the core
\* service, fake_items_db and data of the dependency module, items and
\* items2 of the user module) has the contents it had when the process
\* started.
C13_StoresUnchanged == stores = InitialStores

\* C13 witness: GET /items8/ without ids picked an entry at random and was
\* answered while a request for an item of the dependency module, whose
\* handler has run, waits for get_username to be left
C13_Witness ==
    /\ Answered("read_items8")
    /\ ~req.in.ids.some
    /\ BodyRan("read_items8")
    /\ parked.pc = "exit"
    /\ parked.req.handler = "get_item"
    /\ "get_item" \in Range(parked.log)

====
